---------------------------- MODULE Spec2Model ----------------------------
(***************************************************************************)
(* Model of the chat endpoint POST handler of app/api/chat/route.ts.       *)
(* The repository holds three versions of the handler:                     *)
(*   "route"    src/app/api/chat/route.ts  options-object call, positional *)
(*              fallback, content flattened, no system prompt              *)
(*   "part_000" src/unnamed/part_000       positional call only, content   *)
(*              flattened, system prompt prepended                         *)
(*   "part_001" src/unnamed/part_001       positional call only, content   *)
(*              passed through, last message taken with pop()              *)
(* One request is followed from the body parse to its terminal outcome.    *)
(* JavaScript values are tagged records: the tag t is the value's type.    *)
(***************************************************************************)
EXTENDS Naturals, Sequences, FiniteSets, TLC

VARIABLES
    variant,      \* which version of the handler serves the request
    request,      \* the HTTP request (never changed by the handler)
    pc,           \* the handler's position
    messages,     \* const { messages } = body
    lastMessage,  \* const lastMessage
    chatHistory,  \* const chatHistory
    userContent,  \* userContent / lastMessage.content handed to the engine
    engineCreated,\* createChatEngine(llm) has returned
    calls,        \* every chatEngine.chat(...) invocation, in order
    raised,       \* what each failed chat invocation threw, in order
    responses,    \* every response the handler returned, in order
    response,     \* the engine's response object, undefined before it exists
    sent,         \* chunks of the streamed body already sent to the client
    failedAt      \* the position the handler was at when it failed

vars == <<variant, request, pc, messages, lastMessage, chatHistory,
          userContent, engineCreated, calls, raised, responses, response,
          sent, failedAt>>

-----------------------------------------------------------------------------
(* Bounds of the model *)

MaxLen == 3

MaxChunks == 2

-----------------------------------------------------------------------------
(* JavaScript values *)

Undefined == [t |-> "undefined"]

Null == [t |-> "null"]

Str(s) == [t |-> "string", s |-> s]

Num(n) == [t |-> "number", n |-> n]

Bool(b) == [t |-> "boolean", b |-> b]

Arr(items) == [t |-> "array", items |-> items]

ObjEmpty == [t |-> "object"]

ObjText(v) == [t |-> "object", text |-> v]

Msg(role, content) == [t |-> "object", role |-> role, content |-> content]

\* x ?? d
Coalesce(x, d) == IF x.t \in {"null", "undefined"} THEN d ELSE x

\* !x  (the falsy values among the modelled ones)
Falsy(x) ==
    \/ x.t \in {"null", "undefined"}
    \/ x.t = "string" /\ x.s = ""
    \/ x.t = "number" /\ x.n = 0
    \/ x.t = "boolean" /\ ~x.b

Digit(n) ==
    CASE n = 0 -> "0" [] n = 1 -> "1" [] n = 2 -> "2" [] n = 3 -> "3"
      [] n = 4 -> "4" [] n = 5 -> "5" [] n = 6 -> "6" [] n = 7 -> "7"
      [] n = 8 -> "8" [] n = 9 -> "9"

\* Array.prototype.join(sep) on a sequence of strings
RECURSIVE Join(_, _)
Join(strs, sep) ==
    IF strs = <<>> THEN ""
    ELSE IF Len(strs) = 1 THEN strs[1]
    ELSE strs[1] \o sep \o Join(Tail(strs), sep)

\* String(x) of JavaScript, on the modelled values (numbers are one digit;
\* an array is its elements joined by ",", null and undefined ones empty)
RECURSIVE JSString(_)
JSString(x) ==
    CASE x.t = "string" -> x.s
      [] x.t = "number" -> Digit(x.n)
      [] x.t = "boolean" -> IF x.b THEN "true" ELSE "false"
      [] x.t = "null" -> "null"
      [] x.t = "undefined" -> "undefined"
      [] x.t = "object" -> "[object Object]"
      [] x.t = "array" ->
            Join([i \in 1..Len(x.items) |->
                    IF x.items[i].t \in {"null", "undefined"} THEN ""
                    ELSE JSString(x.items[i])], ",")

\* x.role, x.content, x.text, x.message: undefined when the property is absent
Prop(x, name) ==
    IF x.t = "object" /\ name \in DOMAIN x THEN x[name] ELSE Undefined

\* xs[i] of a JavaScript array or argument list: undefined out of range
Nth(xs, i) == IF i \in 1..Len(xs) THEN xs[i] ELSE Undefined

-----------------------------------------------------------------------------
(* The versions of the handler and what distinguishes them *)

Variants == {"route", "part_000", "part_001"}

\* a handler that defaults the body whatever its version
HasBodyDefaultAlways(v) == TRUE

\* const { messages } = body ?? {}   against   const { messages } = body
HasBodyDefault(v) == v \in {"route", "part_000"}

\* const lastMessage = messages?.pop()
UsesPop(v) == v = "part_001"

\* content flattened to a string   against   content: m.content
FlattensContent(v) == v \in {"route", "part_000"}

\* chatHistory.unshift({ role: "system", ... })
HasSystemPrompt(v) == v = "part_000"

\* the call shape tried first
PrimaryShape(v) == IF v = "route" THEN "options" ELSE "positional"

\* a handler that retries whatever its version
HasFallbackAlways(v) == TRUE

\* try { chat({...}) } catch { chat(userContent, true) }
HasFallback(v) == v = "route"

\* (error as Error).message ?? "Internal Server Error"
HasGenericMessage(v) == v \in {"route", "part_000"}

-----------------------------------------------------------------------------
(* Validation *)

FixedError == "messages are required in the request body and the last message must be from the user"

\* messages && messages.length ? messages[messages.length - 1] : undefined
\* and messages?.pop(): both yield the last element, undefined when none
LastOf(ms) ==
    IF ms.t = "array" /\ Len(ms.items) > 0
    THEN ms.items[Len(ms.items)] ELSE Undefined

\* messages after messages?.pop()
Popped(ms) ==
    IF ms.t = "array" /\ Len(ms.items) > 0
    THEN Arr(SubSeq(ms.items, 1, Len(ms.items) - 1)) ELSE ms

\* a validation that forgets the role of the last message
RejectedNoRole(ms, last) == Falsy(ms) \/ Falsy(last)

\* !messages || !lastMessage || lastMessage.role !== "user"
Rejected(ms, last) ==
    \/ Falsy(ms)
    \/ Falsy(last)
    \/ Prop(last, "role") # Str("user")

-----------------------------------------------------------------------------
(* Normalization *)

AllowedRoles == {"system", "user", "assistant", "tool"}

\* a slice that keeps the last message
PriorAll(items) == items

\* messages.slice(0, -1)
Prior(items) ==
    IF items = <<>> THEN <<>> ELSE SubSeq(items, 1, Len(items) - 1)

\* m.role of a null or undefined m raises a TypeError
RoleThrows(m) == m.t \in {"null", "undefined"}

\* allowed.has(m.role)
AllowedRole(m) ==
    LET r == Prop(m, "role") IN r.t = "string" /\ r.s \in AllowedRoles

\* "text" in (part ?? {}) raises a TypeError when the operand is a primitive
PartThrows(part) == part.t \in {"number", "boolean"}

\* a flattening that forgets the text field of object parts
PartTextStringsOnly(part) == IF part.t = "string" THEN part.s ELSE ""

\* typeof part === "string" ? part : "text" in (part ?? {}) ? String(part.text) : ""
PartText(part) ==
    IF part.t = "string" THEN part.s
    ELSE IF Coalesce(part, ObjEmpty).t = "object" /\ "text" \in DOMAIN part
         THEN JSString(part.text)
         ELSE ""

\* the flattening of one content value raises
ContentThrows(c) ==
    c.t = "array" /\ \E i \in 1..Len(c.items) : PartThrows(c.items[i])

\* typeof c === "string" ? c : Array.isArray(c) ? c.map(...).join(" ")
\*                                              : String(c ?? "")
ContentString(c) ==
    IF c.t = "string" THEN c.s
    ELSE IF c.t = "array"
         THEN Join([i \in 1..Len(c.items) |-> PartText(c.items[i])], " ")
         ELSE JSString(Coalesce(c, Str("")))

\* the content handed on by a version: flattened, or as it came
ContentOf(v, m) ==
    IF FlattensContent(v) THEN Str(ContentString(Prop(m, "content")))
    ELSE Prop(m, "content")

\* prior.filter((m) => allowed.has(m.role))
Retained(prior) == SelectSeq(prior, AllowedRole)

\* .map((m) => ({ role: m.role, content: ... }))
History(v, prior) ==
    LET kept == Retained(prior) IN
    [i \in 1..Len(kept) |->
        [t |-> "object", role |-> kept[i].role, content |-> ContentOf(v, kept[i])]]

\* the TypeError the normalization raises, undefined when it raises none:
\* the filter reads m.role of every prior message first, then the map
\* flattens the retained ones, then the last message is flattened
NormalizeError(v, prior, last) ==
    IF \E i \in 1..Len(prior) : RoleThrows(prior[i])
    THEN [t |-> "object", message |-> Str("Cannot read properties of null (reading 'role')")]
    ELSE IF /\ FlattensContent(v)
            /\ \/ \E i \in 1..Len(Retained(prior)) :
                      ContentThrows(Prop(Retained(prior)[i], "content"))
               \/ ContentThrows(Prop(last, "content"))
         THEN [t |-> "object", message |-> Str("Cannot use 'in' operator to search for 'text'")]
         ELSE Undefined

\* the system message of part_000 (its accents left out)
SystemPrompt ==
    [t |-> "object", role |-> Str("system"),
     content |-> Str("Eres un asistente que responde unicamente con informacion contenida en los documentos proporcionados. "
                     \o "Si no encuentras la respuesta en ellos, responde exactamente: 'No encontre esa informacion en el documento.' "
                     \o "No inventes datos ni uses conocimiento externo.")]

-----------------------------------------------------------------------------
(* The chat engine and the responses *)

\* a thrown Error carrying a message
Err(m) == [t |-> "object", message |-> Str(m)]

\* what the engine, its construction or the model client may throw: an Error
\* with a message, or an object that has no message property
Thrown(m) == {Err(m), ObjEmpty}

\* the engine's native response object: an asynchronous sequence of chunks
\* that the engine produces one by one while the body is streamed
EngineResponse == [t |-> "object", kind |-> "stream"]

\* chat({ message: userContent, chatHistory, stream: true })
OptionsCall(text, history) ==
    [shape |-> "options",
     args |-> <<[t |-> "object", message |-> text, chatHistory |-> history,
                 stream |-> Bool(TRUE)]>>]

\* chat(userContent, chatHistory, true)
PositionalCall(text, history) ==
    [shape |-> "positional", args |-> <<text, history, Bool(TRUE)>>]

\* chat(userContent, true)
FallbackCall(text) ==
    [shape |-> "positional", args |-> <<text, Bool(TRUE)>>]

\* the call a version makes first
PrimaryCall(v, text, history) ==
    IF PrimaryShape(v) = "options" THEN OptionsCall(text, history)
    ELSE PositionalCall(text, history)

\* the three logical arguments of a call: the options object's fields, or
\* the positions of chat(message, chatHistory, stream)
ArgMessage(call) ==
    IF call.shape = "options" THEN Prop(call.args[1], "message")
    ELSE Nth(call.args, 1)

ArgHistory(call) ==
    IF call.shape = "options" THEN Prop(call.args[1], "chatHistory")
    ELSE Nth(call.args, 2)

ArgStream(call) ==
    IF call.shape = "options" THEN Prop(call.args[1], "stream")
    ELSE Nth(call.args, 3)

\* the error field of the 500 body
ErrorField(v, thrown) ==
    IF HasGenericMessage(v)
    THEN Coalesce(Prop(thrown, "message"), Str("Internal Server Error"))
    ELSE Prop(thrown, "message")

\* NextResponse.json({ error: e }, { status }): JSON leaves out an undefined field
JsonResponse(e, status) ==
    [status |-> status, kind |-> "json",
     body |-> IF e.t = "undefined" THEN ObjEmpty ELSE [t |-> "object", error |-> e]]

\* new StreamingTextResponse(stream)
StreamResponse == [status |-> 200, kind |-> "stream", body |-> ObjEmpty]

-----------------------------------------------------------------------------
(* The requests *)

\* roles the handler supports, and one it does not
RoleSamples == {"user", "assistant"}

UnsupportedRole == "data"

\* content: a string, null, another value, a sequence with every kind of
\* part that flattens, a sequence with a part that is a number
ContentSamples ==
    { Str("hi"), Null, Num(7),
      Arr(<<Str("a"), ObjText(Str("b")), ObjEmpty, Null, Str("c")>>),
      Arr(<<Num(7)>>) }

\* a message of unsupported role is dropped before its content is read: it
\* comes with a content that flattens and with one that does not
MessageSamples ==
    {Null}
    \cup {Msg(Str(r), c) : r \in RoleSamples, c \in ContentSamples}
    \cup {Msg(Str(UnsupportedRole), c) : c \in {Str("hi"), Arr(<<Num(7)>>)}}

MessageLists == UNION {[1..n -> MessageSamples] : n \in 0..MaxLen}

\* a body that is missing or is not JSON, the JSON null, an object without
\* messages, an object with a message list
Requests ==
    {[kind |-> "unparseable"], [kind |-> "json", body |-> Null],
     [kind |-> "json", body |-> ObjEmpty]}
    \cup {[kind |-> "json", body |-> [t |-> "object", messages |-> Arr(ms)]] :
            ms \in MessageLists}

-----------------------------------------------------------------------------
(* The handler *)

Init ==
    /\ variant \in Variants
    /\ request \in Requests
    /\ pc = "AwaitingBody"
    /\ messages = Undefined
    /\ lastMessage = Undefined
    /\ chatHistory = Undefined
    /\ userContent = Undefined
    /\ engineCreated = FALSE
    /\ calls = <<>>
    /\ raised = <<>>
    /\ responses = <<>>
    /\ response = Undefined
    /\ sent = <<>>
    /\ failedAt = "none"

\* catch (error) { return NextResponse.json({ error: ... }, { status: 500 }) }
Catch(thrown) ==
    /\ responses' = Append(responses, JsonResponse(ErrorField(variant, thrown), 500))
    /\ pc' = "Failed"
    /\ failedAt' = pc

\* const body = await request.json(); const { messages } = body ?? {}
ParseBody ==
    /\ pc = "AwaitingBody"
    /\ IF request.kind = "unparseable"
       THEN /\ Catch(Err("Unexpected end of JSON input"))
            /\ UNCHANGED messages
       ELSE IF request.body.t = "null" /\ ~HasBodyDefault(variant)
       THEN /\ Catch(Err("Cannot destructure property 'messages' of 'body' as it is null."))
            /\ UNCHANGED messages
       ELSE /\ messages' = Prop(Coalesce(request.body, ObjEmpty), "messages")
            /\ pc' = "Validating"
            /\ UNCHANGED <<responses, failedAt>>
    /\ UNCHANGED <<variant, request, lastMessage, chatHistory, userContent,
                   engineCreated, calls, raised, response, sent>>

\* a handler that builds the engine before it validates
ValidateAfterEngine ==
    /\ pc = "Validating"
    /\ engineCreated' = TRUE
    /\ lastMessage' = LastOf(messages)
    /\ messages' = IF UsesPop(variant) THEN Popped(messages) ELSE messages
    /\ IF Rejected(messages', lastMessage')
       THEN /\ responses' = Append(responses, JsonResponse(Str(FixedError), 400))
            /\ pc' = "Failed"
            /\ failedAt' = pc
       ELSE /\ pc' = "Normalizing"
            /\ UNCHANGED <<responses, failedAt>>
    /\ UNCHANGED <<variant, request, chatHistory, userContent,
                   calls, raised, response, sent>>

\* the last message is taken and the conversation validated
Validate ==
    /\ pc = "Validating"
    /\ lastMessage' = LastOf(messages)
    /\ messages' = IF UsesPop(variant) THEN Popped(messages) ELSE messages
    /\ IF Rejected(messages', lastMessage')
       THEN /\ responses' = Append(responses, JsonResponse(Str(FixedError), 400))
            /\ pc' = "Failed"
            /\ failedAt' = pc
       ELSE /\ pc' = "Normalizing"
            /\ UNCHANGED <<responses, failedAt>>
    /\ UNCHANGED <<variant, request, chatHistory, userContent, engineCreated,
                   calls, raised, response, sent>>

\* the messages before the last one, as the version finds them
PriorOf(v, ms) == IF UsesPop(v) THEN ms.items ELSE Prior(ms.items)

\* chatHistory and userContent are computed
Normalize ==
    /\ pc = "Normalizing"
    /\ LET prior == PriorOf(variant, messages)
           error == NormalizeError(variant, prior, lastMessage)
       IN  IF error # Undefined
           THEN /\ Catch(error)
                /\ UNCHANGED <<chatHistory, userContent>>
           ELSE /\ chatHistory' = Arr(History(variant, prior))
                /\ userContent' = ContentOf(variant, lastMessage)
                /\ pc' = "CreatingEngine"
                /\ UNCHANGED <<responses, failedAt>>
    /\ UNCHANGED <<variant, request, messages, lastMessage, engineCreated,
                   calls, raised, response, sent>>

\* new OpenAI({...}); await createChatEngine(llm); the system prompt is put
\* at the front of the history where the version has one
CreateEngine ==
    /\ pc = "CreatingEngine"
    /\ \/ /\ engineCreated' = TRUE
          /\ chatHistory' = IF HasSystemPrompt(variant)
                            THEN Arr(<<SystemPrompt>> \o chatHistory.items)
                            ELSE chatHistory
          /\ pc' = "Invoking"
          /\ UNCHANGED <<responses, failedAt>>
       \/ /\ \E thrown \in Thrown("engine construction failed") : Catch(thrown)
          /\ UNCHANGED <<engineCreated, chatHistory>>
    /\ UNCHANGED <<variant, request, messages, lastMessage, userContent,
                   calls, raised, response, sent>>

\* the first chat call: it returns the engine's response, or raises
ChatPrimary ==
    /\ pc = "Invoking"
    /\ calls' = Append(calls, PrimaryCall(variant, userContent, chatHistory))
    /\ \/ /\ response' = EngineResponse
          /\ pc' = "Adapting"
          /\ UNCHANGED <<raised, responses, failedAt>>
       \/ \E thrown \in Thrown("primary call failed") :
            /\ raised' = Append(raised, thrown)
            /\ UNCHANGED response
            /\ IF HasFallback(variant)
               THEN /\ pc' = "Fallback"
                    /\ UNCHANGED <<responses, failedAt>>
               ELSE Catch(thrown)
    /\ UNCHANGED <<variant, request, messages, lastMessage, chatHistory,
                   userContent, engineCreated, sent>>

\* catch { response = await chatEngine.chat(userContent, true) }
ChatFallback ==
    /\ pc = "Fallback"
    /\ calls' = Append(calls, FallbackCall(userContent))
    /\ \/ /\ response' = EngineResponse
          /\ pc' = "Adapting"
          /\ UNCHANGED <<raised, responses, failedAt>>
       \/ \E thrown \in Thrown("fallback call failed") :
            /\ raised' = Append(raised, thrown)
            /\ UNCHANGED response
            /\ Catch(thrown)
    /\ UNCHANGED <<variant, request, messages, lastMessage, chatHistory,
                   userContent, engineCreated, sent>>

\* const stream = LlamaIndexStream(response); return new StreamingTextResponse(stream)
StartStream ==
    /\ pc = "Adapting"
    /\ responses' = Append(responses, StreamResponse)
    /\ pc' = "Streaming"
    /\ UNCHANGED <<variant, request, messages, lastMessage, chatHistory,
                   userContent, engineCreated, calls, raised, response, sent,
                   failedAt>>

\* the engine produces its next chunk, which is sent to the client
StreamChunk ==
    /\ pc = "Streaming"
    /\ Len(sent) < MaxChunks
    /\ sent' = Append(sent, "chunk")
    /\ UNCHANGED <<variant, request, pc, messages, lastMessage, chatHistory,
                   userContent, engineCreated, calls, raised, responses,
                   response, failedAt>>

\* the engine signals the end of its output
StreamEnd ==
    /\ pc = "Streaming"
    /\ pc' = "Done"
    /\ UNCHANGED <<variant, request, messages, lastMessage, chatHistory,
                   userContent, engineCreated, calls, raised, responses,
                   response, sent, failedAt>>

\* the engine raises in place of its next chunk: the handler has returned,
\* the stream is cut and the 200 response stays as it was
StreamRaise ==
    /\ pc = "Streaming"
    /\ pc' = "Aborted"
    /\ UNCHANGED <<variant, request, messages, lastMessage, chatHistory,
                   userContent, engineCreated, calls, raised, responses,
                   response, sent, failedAt>>

Next ==
    \/ ParseBody
    \/ Validate
    \/ Normalize
    \/ CreateEngine
    \/ ChatPrimary
    \/ ChatFallback
    \/ StartStream
    \/ StreamChunk
    \/ StreamEnd
    \/ StreamRaise

Spec == Init /\ [][Next]_vars

-----------------------------------------------------------------------------
(* What the properties below speak of *)

HasMessageList ==
    /\ request.kind = "json"
    /\ request.body.t = "object"
    /\ "messages" \in DOMAIN request.body

\* the message list as the client sent it
Conversation == IF HasMessageList THEN request.body.messages.items ELSE <<>>

LastRoleIsUser ==
    /\ Len(Conversation) >= 1
    /\ Conversation[Len(Conversation)].t = "object"
    /\ Conversation[Len(Conversation)].role = Str("user")

Answered(status) == \E i \in 1..Len(responses) : responses[i].status = status

\* the chat stage is over: a response was obtained, or the last attempt raised
ChatOver ==
    \/ pc \in {"Adapting", "Streaming", "Done", "Aborted"}
    \/ pc = "Failed" /\ failedAt \in {"Invoking", "Fallback"}

-----------------------------------------------------------------------------
(* C1: for a body carrying a message list, the request is answered 400 with  *)
(* the fixed error text exactly when the list is empty or its last message's *)
(* role is not user; every other list passes validation and never gets 400.  *)
C1_ValidationIff ==
    HasMessageList =>
      /\ pc \notin {"AwaitingBody", "Validating"} =>
            (Answered(400) <=> ~LastRoleIsUser)
      /\ Answered(400) =>
            /\ ~LastRoleIsUser
            /\ responses = <<[status |-> 400, kind |-> "json",
                              body |-> [t |-> "object", error |-> Str(FixedError)]]>>
      /\ LastRoleIsUser /\ pc = "Failed" => failedAt # "Validating"

C1_Witness ==
    /\ HasMessageList
    /\ Len(Conversation) = 2
    /\ Conversation[1].t = "object" /\ Conversation[1].role = Str("user")
    /\ ~LastRoleIsUser
    /\ Answered(400)

-----------------------------------------------------------------------------
(* C2, as amended: chat is invoked once when the first call succeeds; when   *)
(* it raises, route.ts invokes it once more in the other shape, and the      *)
(* positional-only versions do not retry and answer 500; there is never a    *)
(* third invocation, and a raise of the last attempt ends in HTTP 500.       *)
C2_CallCount ==
    /\ Len(calls) <= 2
    /\ Len(calls) = 2 =>
          /\ variant = "route"
          /\ Len(raised) >= 1
          /\ calls[1].shape # calls[2].shape
    /\ ChatOver =>
          /\ raised = <<>> => Len(calls) = 1
          /\ raised # <<>> /\ variant = "route" => Len(calls) = 2
          /\ raised # <<>> /\ variant # "route" =>
                Len(calls) = 1 /\ pc = "Failed" /\ Answered(500)
          /\ Len(raised) = Len(calls) => pc = "Failed" /\ Answered(500)

C2_Witness ==
    /\ variant = "route"
    /\ Len(calls) = 2
    /\ Len(raised) = 2
    /\ pc = "Failed"

(* C2 as stated: once the primary call has raised, chat was invoked twice.   *)
C2_TwiceWhenPrimaryRaises ==
    ChatOver /\ raised # <<>> => Len(calls) = 2

-----------------------------------------------------------------------------
(* C3: every chat invocation, the fallback included, carries the current    *)
(* turn's text, the normalized history and the streaming flag true.          *)
C3_SameThreeArguments ==
    \A i \in 1..Len(calls) :
        /\ ArgMessage(calls[i]) = userContent
        /\ ArgHistory(calls[i]) = chatHistory
        /\ ArgStream(calls[i]) = Bool(TRUE)

-----------------------------------------------------------------------------
(* C4: when both call shapes raise, the error of the 500 body is the        *)
(* message of the error the primary attempt raised.                          *)
C4_OriginalErrorObserved ==
    /\ pc = "Failed"
    /\ Len(raised) = 2
    /\ Prop(raised[1], "message") # Undefined
    => responses[Len(responses)].body = [t |-> "object", error |-> raised[1].message]

-----------------------------------------------------------------------------
(* The history and the flattening, stated from the request *)

\* the positions, before the last, of the messages with a supported role
KeptIdx ==
    {i \in 1..(Len(Conversation) - 1) :
        /\ Conversation[i].t = "object"
        /\ Conversation[i].role.t = "string"
        /\ Conversation[i].role.s \in {"system", "user", "assistant", "tool"}}

Rank(i) == Cardinality({j \in KeptIdx : j <= i})

\* what one part contributes
Contribution(part) ==
    CASE part.t = "string" -> part.s
      [] part.t = "object" /\ "text" \in DOMAIN part /\ part.text.t = "string" -> part.text.s
      [] OTHER -> ""

\* the contributions of the parts, one space between two neighbours
RECURSIVE SpaceJoined(_)
SpaceJoined(parts) ==
    IF Len(parts) = 0 THEN ""
    ELSE IF Len(parts) = 1 THEN Contribution(parts[1])
    ELSE SpaceJoined(SubSeq(parts, 1, Len(parts) - 1)) \o " "
            \o Contribution(parts[Len(parts)])

\* out is the flattened string of the content in
Flattened(in, out) ==
    /\ out.t = "string"
    /\ in.t = "string" => out = in
    /\ in.t = "array" => out.s = SpaceJoined(in.items)
    /\ in.t \in {"null", "undefined"} => out.s = ""

\* a history as handed to the engine, without the system prompt part_000
\* puts in front once the engine is built
WithoutPrompt(h) ==
    IF variant = "part_000" /\ engineCreated THEN Tail(h.items) ELSE h.items

\* the histories handed to the engine
HandedHistories ==
    {ArgHistory(calls[i]) : i \in {j \in 1..Len(calls) : ArgHistory(calls[j]).t = "array"}}

\* the histories the handler holds or has handed to the engine
Histories ==
    (IF chatHistory.t = "array" THEN {chatHistory} ELSE {}) \cup HandedHistories

-----------------------------------------------------------------------------
(* C5: the history handed to the engine, the system prompt set aside, is the *)
(* conversation without its last message, the messages of unsupported role   *)
(* removed and the others in their original order; the last message is not   *)
(* part of it.                                                               *)
C5_HistoryIsFilteredPrior ==
    \A h \in Histories :
        LET H == WithoutPrompt(h) IN
        /\ Len(H) = Cardinality(KeptIdx)
        /\ \A i \in KeptIdx :
              /\ H[Rank(i)].role = Conversation[i].role
              /\ \/ H[Rank(i)].content = Conversation[i].content
                 \/ Flattened(Conversation[i].content, H[Rank(i)].content)

C5_Witness ==
    /\ calls # <<>>
    /\ Len(Conversation) = 3
    /\ Cardinality(KeptIdx) = 1
    /\ Conversation[1].t = "object" /\ Conversation[1].role = Str("data")
    /\ Conversation[2].t = "object" /\ Conversation[2].role = Str("user")

-----------------------------------------------------------------------------
(* C6, as amended: in the versions that flatten (route.ts, part_000) every   *)
(* content handed to the engine is the flattened string: a string unchanged, *)
(* a sequence of parts as its contributions joined by one space, null as the *)
(* empty string; part_001 hands the content on as it came.                   *)
C6_FlattenedContent ==
    /\ variant # "part_001" =>
          /\ \A i \in 1..Len(calls) :
                Flattened(Conversation[Len(Conversation)].content, ArgMessage(calls[i]))
          /\ \A h \in Histories : \A i \in KeptIdx :
                Flattened(Conversation[i].content, WithoutPrompt(h)[Rank(i)].content)
    /\ variant = "part_001" =>
          /\ \A i \in 1..Len(calls) :
                ArgMessage(calls[i]) = Conversation[Len(Conversation)].content
          /\ \A h \in Histories : \A i \in KeptIdx :
                WithoutPrompt(h)[Rank(i)].content = Conversation[i].content

C6_Witness ==
    /\ variant = "route"
    /\ calls # <<>>
    /\ Len(Conversation) = 2
    /\ KeptIdx = {1}
    /\ Conversation[1].content.t = "array"
    /\ Conversation[2].content.t = "array"
    /\ ArgMessage(calls[1]) = Str("a b   c")

(* C6 as stated: no content that is not a string reaches the engine.         *)
C6_OnlyStringsReachEngine ==
    /\ \A i \in 1..Len(calls) : ArgMessage(calls[i]).t = "string"
    /\ \A h \in HandedHistories : \A k \in 1..Len(h.items) :
          h.items[k].content.t = "string"

-----------------------------------------------------------------------------
(* C7: a request has one terminal outcome; Failed always carries a JSON body *)
(* { error: <message> } with status 400 or 500, and is never entered once a  *)
(* chunk of the streamed body was sent.                                      *)
C7_OneOutcomeErrorEnvelope ==
    /\ Len(responses) <= 1
    /\ pc \in {"Done", "Aborted"} => responses = <<StreamResponse>>
    /\ sent # <<>> => responses = <<StreamResponse>>
    /\ pc = "Failed" =>
          /\ Len(responses) = 1
          /\ sent = <<>>
          /\ responses[1].kind = "json"
          /\ responses[1].status \in {400, 500}
          /\ "error" \in DOMAIN responses[1].body
          /\ responses[1].body.error.t = "string"

(* What of C7 does not rest on the error text: one response at most, an     *)
(* error envelope only before any chunk, and nothing after Failed.           *)
OneOutcomeNoLateFailure ==
    /\ Len(responses) <= 1
    /\ pc \in {"Done", "Aborted"} => responses = <<StreamResponse>>
    /\ sent # <<>> => responses = <<StreamResponse>>
    /\ pc = "Failed" =>
          /\ Len(responses) = 1
          /\ sent = <<>>
          /\ responses[1].kind = "json"
          /\ responses[1].status \in {400, 500}
          /\ ~ENABLED Next

-----------------------------------------------------------------------------
(* C8, as amended: a body that is missing or cannot be parsed is answered    *)
(* 500, and so is a JSON null body by part_001; a parsed body whose message  *)
(* list is absent, empty or does not end with a user message is answered     *)
(* 400; in each case without engine, chat call, retry or partial output.     *)
Malformed == ~HasMessageList \/ ~LastRoleIsUser

C8_MalformedStatus ==
    Malformed =>
      /\ pc \in {"AwaitingBody", "Validating", "Failed"}
      /\ ~engineCreated /\ calls = <<>> /\ sent = <<>>
      /\ Len(responses) <= 1
      /\ pc = "Failed" =>
            /\ Len(responses) = 1
            /\ responses[1].status =
                  IF \/ request.kind = "unparseable"
                     \/ request.body.t = "null" /\ variant = "part_001"
                  THEN 500 ELSE 400

C8_Witness ==
    /\ request.kind = "json"
    /\ request.body.t = "null"
    /\ variant = "part_001"
    /\ Answered(500)

(* C8 as stated: a malformed request is always answered 400.                 *)
C8_MalformedIs400 ==
    Malformed /\ pc = "Failed" => Answered(400)

-----------------------------------------------------------------------------
(* C9: when the request is answered 400, no chat engine was built, chat was  *)
(* never called, and neither the history nor the current turn was computed.  *)
C9_NothingRunsBeforeValidation ==
    /\ Answered(400) =>
          /\ ~engineCreated
          /\ calls = <<>>
          /\ chatHistory = Undefined
          /\ userContent = Undefined
    /\ pc \in {"AwaitingBody", "Validating"} =>
          /\ ~engineCreated
          /\ calls = <<>>
          /\ chatHistory = Undefined
          /\ userContent = Undefined

C9_Witness ==
    /\ Answered(400)
    /\ Len(Conversation) = 2
    /\ Conversation[2].t = "object" /\ Conversation[2].role = Str("assistant")

-----------------------------------------------------------------------------
(* C10: the handler never fails while normalizing a validated conversation.  *)
C10_NormalizingNeverFails ==
    pc = "Failed" => failedAt # "Normalizing"

=============================================================================
